---- MODULE Spec2Model ----
(***************************************************************************)
(* A model of the product-catalog server: the request handler of          *)
(* server.py (do_GET, do_POST), the persisted filter store                 *)
(* current_filters.json, and the filter, sort and pagination engines it    *)
(* calls.  filter.py and pagination.py are not part of the sources; their  *)
(* operators are written from the specification (sections 3, 4.2-4.4) and  *)
(* the tests of test_filter.py.                                            *)
(***************************************************************************)
EXTENDS Integers, Sequences, FiniteSets, TLC

VARIABLES
    catalog,        \* data.json: the sequence of product records
    store,          \* current_filters.json: [exists, text]
    request,        \* the request being answered
    response,       \* the response written for it
    filters,        \* do_GET's local `filters`: what the query loaded
    paging,         \* do_GET's locals `page_number` and `items_per_page`
    lastMutation,   \* history: the last set-filters / clear-filters that ran,
                    \* and the store it found
    sortInput,      \* sort engine: the argument
    sortMode,       \* sort engine: which sort ran
    sortOutput,     \* sort engine: the returned list
    pgRecords,      \* pagination: the filtered/sorted sequence being paged
    pgSize,         \* pagination: the page size
    pgPage,         \* pagination: the next page to fetch
    pgCollected,    \* pagination: the page items received so far
    pgResponse,     \* pagination: the last page's response
    wpc,            \* race: the set-filters handler's position
    wpending,       \* race: the text json.dump has still to write
    rpc,            \* race: the query handler's position
    rtext,          \* race: the text the query read
    oldStore        \* race: the store before the set-filters began

serverVars == <<catalog, store, request, response, filters, paging,
                lastMutation>>
sortVars == <<sortInput, sortMode, sortOutput>>
pageVars == <<pgRecords, pgSize, pgPage, pgCollected, pgResponse>>
raceVars == <<wpc, wpending, rpc, rtext, oldStore>>
vars == <<serverVars, sortVars, pageVars, raceVars>>

----------------------------------------------------------------------------
(* Bounds *)

MaxCatalog == 2
MaxSortLen == 3
MaxPageLen == 8
MaxPageSize == 4
PagesBeyond == 2
MaxBrowseSize == 2

----------------------------------------------------------------------------
(* Generic helpers *)

Min(a, b) == IF a < b THEN a ELSE b
Max(a, b) == IF a > b THEN a ELSE b

SeqsUpTo(S, n) == UNION {[1..k -> S] : k \in 0..n}

Range(s) == {s[i] : i \in 1..Len(s)}

\* Sequences over S without repetition, of length at most n.
DistinctSeqs(S, n) ==
    {s \in SeqsUpTo(S, n) : \A i, j \in 1..Len(s) : i # j => s[i] # s[j]}

----------------------------------------------------------------------------
(* JSON values: <<"null">>, <<"bool", b>>, <<"str", s>> with s a string,   *)
(* and <<"chars", cs>> for a string kept as its characters (price_range,   *)
(* which the handler splits and converts).  Python's None is <<"null">>.   *)

JNull == <<"null">>
JBool(b) == <<"bool", b>>
JStr(s) == <<"str", s>>
JChars(cs) == <<"chars", cs>>

\* Python truthiness of a JSON value.
Truthy(v) ==
    CASE v[1] = "null" -> FALSE
      [] v[1] = "bool" -> v[2]
      [] v[1] = "str" -> v[2] # ""
      [] v[1] = "chars" -> Len(v[2]) > 0

\* dict.get(key): None when the key is missing.
Get(m, k) == IF k \in DOMAIN m THEN m[k] ELSE JNull

----------------------------------------------------------------------------
(* Products.  The four records are the sample_products fixture of          *)
(* test_filter.py; popularity scores are kept in tenths (2.5 -> 25).       *)

Product(id, color, designer, on_sale, regular, discount, pop) ==
    [product_id |-> id, color |-> color, designer |-> designer,
     on_sale |-> on_sale, regular_price |-> regular,
     discount_price |-> discount, popularity_score |-> pop]

sample_products ==
    << Product(1, "red", "gucci", TRUE, 500, 250, 25),
       Product(2, "black", "gucci", TRUE, 800, 400, 38),
       Product(3, "black", "dolce-gabbana", FALSE, 150, 150, 12),
       Product(4, "blue", "gucci", FALSE, 50, 50, 45) >>

\* Effective price: discount_price when on sale, else regular_price.
ProductPrice(p) == IF p.on_sale THEN p.discount_price ELSE p.regular_price

----------------------------------------------------------------------------
(* Filter engine (filter.py) *)

filter_by_color(products, color) ==
    SelectSeq(products, LAMBDA p : p.color = color)

filter_by_price_range(products, min_price, max_price) ==
    SelectSeq(products,
              LAMBDA p : min_price <= ProductPrice(p) /\ ProductPrice(p) <= max_price)

filter_by_sale_status(products, on_sale) ==
    SelectSeq(products, LAMBDA p : p.on_sale = on_sale)

filter_by_brand(products, brand) ==
    SelectSeq(products, LAMBDA p : p.designer = brand)

\* A criterion that is None or the empty string is "not provided".
Provided(v) == ~(v[1] = "null") /\ ~(v[1] = "str" /\ v[2] = "")

\* price_range is None or <<"range", min, max>>.
apply_filters(products, color, price_range, on_sale, brand) ==
    LET byColor == IF Provided(color)
                   THEN filter_by_color(products, color[2]) ELSE products
        byPrice == IF Provided(price_range)
                   THEN filter_by_price_range(byColor, price_range[2], price_range[3])
                   ELSE byColor
        bySale == IF Provided(on_sale)
                  THEN filter_by_sale_status(byPrice, on_sale[2]) ELSE byPrice
    IN IF Provided(brand) THEN filter_by_brand(bySale, brand[2]) ELSE bySale

----------------------------------------------------------------------------
(* Sort engine (filter.py): sorted(products, key=..., reverse=...), which  *)
(* is stable in both directions.                                           *)

\* Equal keys placed last-first, as reversing an ascending sort does.
SortRank_TiesReversed(keys, i) ==
    Cardinality({j \in 1..Len(keys) :
                    keys[j] < keys[i] \/ (keys[j] = keys[i] /\ j > i)}) + 1

\* The position sorted() gives element i: after every smaller key and after
\* the equal keys that came before it.
SortRank(keys, i) ==
    Cardinality({j \in 1..Len(keys) :
                    keys[j] < keys[i] \/ (keys[j] = keys[i] /\ j < i)}) + 1

SortedByKey(products, keys) ==
    [r \in 1..Len(products) |->
        products[CHOOSE i \in 1..Len(products) : SortRank(keys, i) = r]]

sort_by_price_high_to_low(products) ==
    SortedByKey(products, [i \in 1..Len(products) |-> 0 - ProductPrice(products[i])])

sort_by_price_low_to_high(products) ==
    SortedByKey(products, [i \in 1..Len(products) |-> ProductPrice(products[i])])

sort_by_popularity(products) ==
    SortedByKey(products, [i \in 1..Len(products) |-> 0 - products[i].popularity_score])

----------------------------------------------------------------------------
(* Pagination engine (pagination.py) *)

ValidationError == [ok |-> FALSE, error |-> "ValidationError"]

CeilDiv(a, b) == (a + b - 1) \div b

ValidPage(page, page_size) == page >= 1 /\ page_size >= 1

get_page_data(products, page, page_size) ==
    IF ~ValidPage(page, page_size) THEN ValidationError
    ELSE [ok |-> TRUE,
          value |-> SubSeq(products, (page - 1) * page_size + 1,
                           Min(page * page_size, Len(products)))]

total_pages_of(total_items, page_size) == Max(1, CeilDiv(total_items, page_size))

create_pagination_info(products, page, page_size) ==
    IF ~ValidPage(page, page_size) THEN ValidationError
    ELSE LET total == total_pages_of(Len(products), page_size)
         IN [ok |-> TRUE,
             value |-> [total_items |-> Len(products), total_pages |-> total,
                        current_page |-> page, has_next |-> page < total,
                        has_previous |-> page > 1]]

----------------------------------------------------------------------------
(* Text.  A JSON document is kept as its sequence of tokens, so that a     *)
(* file can hold a prefix of a document; a string the code takes apart is  *)
(* kept as its sequence of characters.                                     *)

Keys == <<"color", "brand", "on_sale", "price_range", "sort_by">>

\* json.dump / json.dumps of a mapping.
json_dumps(m) ==
    LET present == SelectSeq(Keys, LAMBDA k : k \in DOMAIN m)
    IN << <<"{">> >> \o [i \in 1..Len(present) |-> <<"kv", present[i], m[present[i]]>>]
          \o << <<"}">> >>

\* json.load / json.loads: the mapping, or JSONDecodeError when the text is
\* not one whole document.
json_loads(text) ==
    IF /\ Len(text) >= 2
       /\ text[1][1] = "{"
       /\ text[Len(text)][1] = "}"
       /\ \A i \in 2..(Len(text) - 1) : text[i][1] = "kv"
    THEN [ok |-> TRUE,
          value |-> [k \in {text[i][2] : i \in 2..(Len(text) - 1)} |->
                        text[CHOOSE i \in 2..(Len(text) - 1) :
                                /\ text[i][2] = k
                                /\ \A j \in (i + 1)..(Len(text) - 1) : text[j][2] # k][3]]]
    ELSE [ok |-> FALSE, error |-> "JSONDecodeError"]

DigitOf ==
    "0" :> 0 @@ "1" :> 1 @@ "2" :> 2 @@ "3" :> 3 @@ "4" :> 4 @@
    "5" :> 5 @@ "6" :> 6 @@ "7" :> 7 @@ "8" :> 8 @@ "9" :> 9

RECURSIVE DigitsValue(_)
DigitsValue(cs) ==
    IF Len(cs) = 0 THEN 0
    ELSE 10 * DigitsValue(SubSeq(cs, 1, Len(cs) - 1)) + DigitOf[cs[Len(cs)]]

AllDigits(cs) == Len(cs) > 0 /\ \A i \in 1..Len(cs) : cs[i] \in DOMAIN DigitOf

\* float(s) on a run of decimal digits; anything else here is a ValueError.
float(cs) ==
    IF AllDigits(cs) THEN [ok |-> TRUE, value |-> DigitsValue(cs)]
    ELSE [ok |-> FALSE, error |-> "ValueError"]

\* int(s): an optional sign and decimal digits.
int(cs) ==
    IF Len(cs) > 0 /\ cs[1] = "-" /\ AllDigits(Tail(cs))
    THEN [ok |-> TRUE, value |-> 0 - DigitsValue(Tail(cs))]
    ELSE IF AllDigits(cs) THEN [ok |-> TRUE, value |-> DigitsValue(cs)]
    ELSE [ok |-> FALSE, error |-> "ValueError"]

\* str.split(sep)
RECURSIVE split(_, _)
split(cs, sep) ==
    IF \E i \in 1..Len(cs) : cs[i] = sep
    THEN LET i == CHOOSE k \in 1..Len(cs) :
                      cs[k] = sep /\ \A j \in 1..(k - 1) : cs[j] # sep
         IN <<SubSeq(cs, 1, i - 1)>> \o split(SubSeq(cs, i + 1, Len(cs)), sep)
    ELSE <<cs>>

----------------------------------------------------------------------------
(* The query pipeline of do_GET, shared by /data.json and /api/products    *)

\* Catalog loader (filter.py): one record per line of data.json.
load_products(file) == file

ColorArg(f) == IF Truthy(Get(f, "color")) THEN Get(f, "color") ELSE JNull

BrandArg(f) == IF Truthy(Get(f, "brand")) THEN Get(f, "brand") ELSE JNull

\* on_sale taken with `or None`, as color and brand are: False is dropped.
OnSaleArg_OrNone(f) == IF Truthy(Get(f, "on_sale")) THEN Get(f, "on_sale") ELSE JNull

OnSaleArg(f) == IF Get(f, "on_sale")[1] # "null" THEN Get(f, "on_sale") ELSE JNull

\* The two parts of price_range taken in the wrong order.
PriceRangeArg_Swapped(f) ==
    IF ~Truthy(Get(f, "price_range")) THEN [ok |-> TRUE, value |-> JNull]
    ELSE LET price_parts == split(Get(f, "price_range")[2], "-")
         IN IF Len(price_parts) < 2 THEN [ok |-> FALSE, error |-> "IndexError"]
            ELSE [ok |-> TRUE,
                  value |-> <<"range", float(price_parts[2]).value,
                              float(price_parts[1]).value>>]

\* <<"range", min, max>> from "min-max"; None when price_range is falsy.
PriceRangeArg(f) ==
    IF ~Truthy(Get(f, "price_range")) THEN [ok |-> TRUE, value |-> JNull]
    ELSE LET price_parts == split(Get(f, "price_range")[2], "-")
             lo == float(price_parts[1])
         IN IF ~lo.ok THEN [ok |-> FALSE, error |-> lo.error]
            ELSE IF Len(price_parts) < 2 THEN [ok |-> FALSE, error |-> "IndexError"]
            ELSE LET hi == float(price_parts[2])
                 IN IF ~hi.ok THEN [ok |-> FALSE, error |-> hi.error]
                    ELSE [ok |-> TRUE, value |-> <<"range", lo.value, hi.value>>]

IsStr(v, s) == v[1] = "str" /\ v[2] = s

\* The two price branches calling each other's sort.
SortStep_SwappedPrice(products, sort_by) ==
    IF IsStr(sort_by, "price_high_to_low") THEN sort_by_price_low_to_high(products)
    ELSE IF IsStr(sort_by, "price_low_to_high") THEN sort_by_price_high_to_low(products)
    ELSE IF IsStr(sort_by, "popularity") THEN sort_by_popularity(products)
    ELSE products

SortStep(products, sort_by) ==
    IF IsStr(sort_by, "price_high_to_low") THEN sort_by_price_high_to_low(products)
    ELSE IF IsStr(sort_by, "price_low_to_high") THEN sort_by_price_low_to_high(products)
    ELSE IF IsStr(sort_by, "popularity") THEN sort_by_popularity(products)
    ELSE products

FilterStep(all_products, f, price_range) ==
    apply_filters(all_products, ColorArg(f), price_range, OnSaleArg(f), BrandArg(f))

\* Load, filter and sort under the loaded mapping f.
FilteredProducts(file, f) ==
    LET price_range == PriceRangeArg(f)
    IN IF ~price_range.ok THEN price_range
       ELSE [ok |-> TRUE,
             value |-> SortStep(FilterStep(load_products(file), f, price_range.value),
                                Get(f, "sort_by"))]

NoFilters == [present |-> FALSE, map |-> <<>>]
NoPaging == <<>>
Failure(e) == [status |-> 500, error |-> e]

\* A store that does not decode taken as an empty mapping.
LoadFilters_DecodeErrorAsEmpty(s) ==
    IF ~s.exists THEN [ok |-> TRUE, value |-> NoFilters]
    ELSE LET loaded == json_loads(s.text)
         IN IF ~loaded.ok THEN [ok |-> TRUE, value |-> [present |-> TRUE, map |-> <<>>]]
            ELSE [ok |-> TRUE, value |-> [present |-> TRUE, map |-> loaded.value]]

\* What the query reads from the store: absent, a mapping, or a decode error.
LoadFilters(s) ==
    IF ~s.exists THEN [ok |-> TRUE, value |-> NoFilters]
    ELSE LET loaded == json_loads(s.text)
         IN IF ~loaded.ok THEN loaded
            ELSE [ok |-> TRUE, value |-> [present |-> TRUE, map |-> loaded.value]]

\* The records a query answers with, given what it loaded.
QueryProducts(file, fl) ==
    IF fl.present THEN FilteredProducts(file, fl.map)
    ELSE [ok |-> TRUE, value |-> load_products(file)]

\* The paginated branch's copy of the pipeline with the sort step left out.
PagedProducts_NoSort(file, fl) ==
    IF ~fl.present THEN [ok |-> TRUE, value |-> load_products(file)]
    ELSE LET price_range == PriceRangeArg(fl.map)
         IN IF ~price_range.ok THEN price_range
            ELSE [ok |-> TRUE,
                  value |-> FilterStep(load_products(file), fl.map, price_range.value)]

\* The records /api/products pages over: its own copy of the pipeline.
PagedProducts(file, fl) ==
    IF fl.present THEN FilteredProducts(file, fl.map)
    ELSE [ok |-> TRUE, value |-> load_products(file)]

----------------------------------------------------------------------------
(* Inputs *)

Absent == <<"absent">>

MappingOf(choice) ==
    [k \in {k \in Range(Keys) : choice[k][1] # "absent"} |-> choice[k]]

\* Store contents a query is checked against: each key missing, null, empty,
\* or set; price_range also with min > max and without a separator.
QueryMappings ==
    {MappingOf(c) : c \in
        [color : {Absent, JNull, JStr(""), JStr("black")},
         brand : {Absent, JNull, JStr(""), JStr("gucci")},
         on_sale : {Absent, JNull, JStr(""), JBool(TRUE), JBool(FALSE)},
         price_range : {Absent, JNull, JChars(<<>>),
                        JChars(<<"1", "5", "0", "-", "2", "5", "0">>),
                        JChars(<<"1", "0", "0", "-", "5", "0", "0">>),
                        JChars(<<"5", "0", "0", "-", "1", "0", "0">>),
                        JChars(<<"1", "0", "0">>)},
         sort_by : {Absent, JStr("price_high_to_low"), JStr("price_low_to_high"),
                    JStr("popularity"), JStr("popularity_descending")}]}

\* Mappings a session submits with set-filters.
SessionMappings ==
    {MappingOf(c) : c \in
        [color : {Absent, JStr("black")},
         brand : {Absent},
         on_sale : {Absent, JBool(FALSE)},
         price_range : {Absent},
         sort_by : {Absent, JStr("popularity")}]}

MalformedBody == << <<"{">> >>

Bodies == {json_dumps(m) : m \in SessionMappings} \cup {MalformedBody}

\* Query strings of /api/products: each parameter missing or a decimal.
QueryStrings ==
    {[k \in {k \in {"page", "items_per_page"} : c[k][1] # "absent"} |-> c[k]] : c \in
        [page : {Absent, <<"-", "1">>, <<"1">>, <<"2">>},
         items_per_page : {Absent, <<"0">>, <<"1">>, <<"2">>}]}

NoQuery == <<>>

Catalogs == DistinctSeqs(Range(sample_products), MaxCatalog)

StoreAbsent == [exists |-> FALSE, text |-> <<>>]
StoreOf(m) == [exists |-> TRUE, text |-> json_dumps(m)]

----------------------------------------------------------------------------
(* do_GET *)

DefaultPage == 1
DefaultItemsPerPage == 50

\* A page default that is not 1.
PageNumberParam_ZeroDefault(query_params) ==
    IF "page" \in DOMAIN query_params THEN int(query_params["page"])
    ELSE [ok |-> TRUE, value |-> 0]

PageNumberParam(query_params) ==
    IF "page" \in DOMAIN query_params THEN int(query_params["page"])
    ELSE [ok |-> TRUE, value |-> DefaultPage]

ItemsPerPageParam(query_params) ==
    IF "items_per_page" \in DOMAIN query_params THEN int(query_params["items_per_page"])
    ELSE [ok |-> TRUE, value |-> DefaultItemsPerPage]

\* The page taken zero-indexed when slicing.
PageResponse_ZeroIndexed(filtered_products, page, per_page) ==
    LET page_data == get_page_data(filtered_products, page + 1, per_page)
        pagination_info == create_pagination_info(filtered_products, page, per_page)
    IN IF ~page_data.ok THEN Failure(page_data.error)
       ELSE IF ~pagination_info.ok THEN Failure(pagination_info.error)
       ELSE [status |-> 200, products |-> page_data.value,
             pagination |-> pagination_info.value]

\* page_number and items_per_page passed in each other's place.
PageResponse_SwappedArgs(filtered_products, page, per_page) ==
    LET page_data == get_page_data(filtered_products, per_page, page)
        pagination_info == create_pagination_info(filtered_products, per_page, page)
    IN IF ~page_data.ok THEN Failure(page_data.error)
       ELSE IF ~pagination_info.ok THEN Failure(pagination_info.error)
       ELSE [status |-> 200, products |-> page_data.value,
             pagination |-> pagination_info.value]

\* The body of /api/products: one page and its metadata.
PageResponse(filtered_products, page, per_page) ==
    LET page_data == get_page_data(filtered_products, page, per_page)
        pagination_info == create_pagination_info(filtered_products, page, per_page)
    IN IF ~page_data.ok THEN Failure(page_data.error)
       ELSE IF ~pagination_info.ok THEN Failure(pagination_info.error)
       ELSE [status |-> 200, products |-> page_data.value,
             pagination |-> pagination_info.value]

\* GET /data.json
GetDataStep ==
    LET loaded == LoadFilters(store)
    IN /\ request' = [method |-> "GET", path |-> "/data.json"]
       /\ paging' = NoPaging
       /\ IF ~loaded.ok
          THEN filters' = NoFilters /\ response' = Failure(loaded.error)
          ELSE LET result == QueryProducts(catalog, loaded.value)
               IN /\ filters' = loaded.value
                  /\ response' = IF result.ok
                                 THEN [status |-> 200, body |-> result.value]
                                 ELSE Failure(result.error)
       /\ UNCHANGED <<catalog, store, lastMutation, sortVars, raceVars>>

GetData == GetDataStep /\ UNCHANGED pageVars

\* GET /api/products?page=..&items_per_page=..
GetProductsStep(query_params) ==
    LET pn == PageNumberParam(query_params)
        ipp == ItemsPerPageParam(query_params)
        loaded == LoadFilters(store)
    IN /\ request' = [method |-> "GET", path |-> "/api/products",
                      query |-> query_params]
       /\ IF ~pn.ok \/ ~ipp.ok
          THEN /\ paging' = NoPaging
               /\ filters' = NoFilters
               /\ response' = Failure("ValueError")
          ELSE /\ paging' = [page_number |-> pn.value, items_per_page |-> ipp.value]
               /\ IF ~loaded.ok
                  THEN filters' = NoFilters /\ response' = Failure(loaded.error)
                  ELSE LET result == PagedProducts(catalog, loaded.value)
                       IN /\ filters' = loaded.value
                          /\ response' = IF result.ok
                                         THEN PageResponse(result.value, pn.value, ipp.value)
                                         ELSE Failure(result.error)
       /\ UNCHANGED <<catalog, store, lastMutation, sortVars, raceVars>>

GetProducts(query_params) == GetProductsStep(query_params) /\ UNCHANGED pageVars

----------------------------------------------------------------------------
(* do_POST *)

Success == [status |-> 200, body |-> "success"]

\* The submitted keys written over the old mapping, which is kept otherwise.
WriteStore_Merge(old, new_filters) ==
    LET before == IF old.exists THEN json_loads(old.text).value ELSE <<>>
    IN [exists |-> TRUE,
        text |-> json_dumps([k \in DOMAIN before \cup DOMAIN new_filters |->
                                IF k \in DOMAIN new_filters THEN new_filters[k]
                                ELSE before[k]])]

\* open("current_filters.json", "w") and json.dump(filters, f)
WriteStore(old, new_filters) == [exists |-> TRUE, text |-> json_dumps(new_filters)]

\* os.remove without the os.path.exists test.
RemoveStore_Unchecked(old) ==
    IF old.exists THEN [ok |-> TRUE, value |-> StoreAbsent]
    ELSE [ok |-> FALSE, error |-> "FileNotFoundError"]

\* if os.path.exists(...): os.remove(...)
RemoveStore(old) ==
    IF old.exists THEN [ok |-> TRUE, value |-> StoreAbsent]
    ELSE [ok |-> TRUE, value |-> old]

\* POST /api/set-filters
SetFilters(body) ==
    LET parsed == json_loads(body)
    IN /\ request' = [method |-> "POST", path |-> "/api/set-filters", body |-> body]
       /\ IF ~parsed.ok
          THEN /\ response' = Failure(parsed.error)
               /\ UNCHANGED <<store, lastMutation>>
          ELSE /\ store' = WriteStore(store, parsed.value)
               /\ lastMutation' = [kind |-> "set", mapping |-> parsed.value,
                                    over |-> store]
               /\ response' = Success
       /\ filters' = NoFilters
       /\ paging' = NoPaging
       /\ UNCHANGED <<catalog, sortVars, pageVars, raceVars>>

\* POST /api/clear-filters
ClearFilters ==
    LET removed == RemoveStore(store)
    IN /\ request' = [method |-> "POST", path |-> "/api/clear-filters"]
       /\ IF ~removed.ok
          THEN /\ response' = Failure(removed.error)
               /\ UNCHANGED <<store, lastMutation>>
          ELSE /\ store' = removed.value
               /\ lastMutation' = [kind |-> "clear", over |-> store]
               /\ response' = Success
       /\ filters' = NoFilters
       /\ paging' = NoPaging
       /\ UNCHANGED <<catalog, sortVars, pageVars, raceVars>>

\* An unrecognized path running the clear-filters branch.
PostOther_FallsToClear ==
    /\ request' = [method |-> "POST", path |-> "/api/other"]
    /\ store' = RemoveStore(store).value
    /\ response' = Success
    /\ filters' = NoFilters
    /\ paging' = NoPaging
    /\ UNCHANGED <<catalog, lastMutation, sortVars, pageVars, raceVars>>

\* POST to any other path
PostOther ==
    /\ request' = [method |-> "POST", path |-> "/api/other"]
    /\ response' = [status |-> 404]
    /\ filters' = NoFilters
    /\ paging' = NoPaging
    /\ UNCHANGED <<catalog, store, lastMutation, sortVars, pageVars, raceVars>>

----------------------------------------------------------------------------
(* Specifications of the server *)

NoMutation == [kind |-> "none"]
NoRequest == [method |-> "", path |-> ""]
NoResponse == [status |-> 0]

SortIdle == sortInput = <<>> /\ sortMode = "" /\ sortOutput = <<>>
PageIdle ==
    /\ pgRecords = <<>> /\ pgSize = 1 /\ pgPage = 1
    /\ pgCollected = <<>> /\ pgResponse = NoResponse
RaceIdle ==
    /\ wpc = "idle" /\ wpending = <<>> /\ rpc = "idle"
    /\ rtext = <<>> /\ oldStore = StoreAbsent

ServerIdle ==
    /\ request = NoRequest /\ response = NoResponse
    /\ filters = NoFilters /\ paging = NoPaging

\* A session: the store starts absent and requests arrive one at a time.
Init ==
    /\ catalog \in Catalogs
    /\ store = StoreAbsent
    /\ lastMutation = NoMutation
    /\ ServerIdle /\ SortIdle /\ PageIdle /\ RaceIdle

Next ==
    \/ \E body \in Bodies : SetFilters(body)
    \/ ClearFilters
    \/ GetData
    \/ \E q \in QueryStrings : GetProducts(q)
    \/ PostOther

Spec == Init /\ [][Next]_vars

\* Queries against every store content.
InitQuery ==
    /\ catalog \in Catalogs
    /\ store \in {StoreAbsent} \cup {StoreOf(m) : m \in QueryMappings}
    /\ lastMutation = NoMutation
    /\ ServerIdle /\ SortIdle /\ PageIdle /\ RaceIdle

NextQuery ==
    \/ GetData
    \/ GetProducts(NoQuery)

SpecQuery == InitQuery /\ [][NextQuery]_vars

----------------------------------------------------------------------------
(* Properties of the query flow, under SpecQuery *)

IsQuery == request.method = "GET"
Answered == IsQuery /\ response.status = 200

\* The records of the response (SpecQuery asks for the default page).
Result == IF request.path = "/data.json" THEN response.body ELSE response.products

PosIn(seq, x) == CHOOSE i \in 1..Len(seq) : seq[i] = x

\* r lists some elements of c, each once, in the order c has them.
InOrderOf(r, c) ==
    /\ \A i \in 1..Len(r) : r[i] \in Range(c)
    /\ \A i, j \in 1..Len(r) : i < j => PosIn(c, r[i]) < PosIn(c, r[j])

\* The bounds each price_range text of the inputs stands for.
RangeBounds(cs) ==
    CASE cs = <<"1", "5", "0", "-", "2", "5", "0">> -> <<150, 250>>
      [] cs = <<"1", "0", "0", "-", "5", "0", "0">> -> <<100, 500>>
      [] cs = <<"5", "0", "0", "-", "1", "0", "0">> -> <<500, 100>>

EmptyValue(v) == v[1] = "null" \/ (v[1] = "str" /\ v[2] = "") \/ (v[1] = "chars" /\ v[2] = <<>>)

CriterionPresent(f, k) == k \in DOMAIN f /\ ~EmptyValue(f[k])

WellFormedRange(f) ==
    CriterionPresent(f, "price_range") =>
        \E i \in 1..Len(f["price_range"][2]) : f["price_range"][2][i] = "-"

\* p passes every criterion present in the mapping f.
Passes(p, f) ==
    /\ CriterionPresent(f, "color") => p.color = f["color"][2]
    /\ CriterionPresent(f, "brand") => p.designer = f["brand"][2]
    /\ CriterionPresent(f, "on_sale") => p.on_sale = f["on_sale"][2]
    /\ CriterionPresent(f, "price_range") =>
          LET b == RangeBounds(f["price_range"][2])
              price == IF p.on_sale THEN p.discount_price ELSE p.regular_price
          IN b[1] <= price /\ price <= b[2]

SortNames == {"price_high_to_low", "price_low_to_high", "popularity"}

Sorting(f) == "sort_by" \in DOMAIN f /\ f["sort_by"][2] \in SortNames

\* C1: a query's result holds a catalog record iff the record passes every
\* criterion present in the store (color and brand by equality, on_sale by
\* boolean equality, price_range inclusive on the effective price), each
\* record once; when no sort is applied the survivors keep their catalog
\* order, and with no criterion present the result is the whole catalog.
C1_FilterIffPasses ==
    /\ (IsQuery /\ ~filters.present) => (Answered /\ Result = catalog)
    /\ (IsQuery /\ filters.present /\ WellFormedRange(filters.map)) =>
          /\ Answered
          /\ \A i \in 1..Len(catalog) :
                (catalog[i] \in Range(Result)) <=> Passes(catalog[i], filters.map)
          /\ Cardinality(Range(Result)) = Len(Result)
          /\ ~Sorting(filters.map) => InOrderOf(Result, catalog)
          /\ (~Sorting(filters.map)
                /\ \A k \in {"color", "brand", "on_sale", "price_range"} :
                      ~CriterionPresent(filters.map, k))
             => Result = catalog

\* All four criteria present, one record kept and one dropped.
C1_Witness ==
    /\ Answered /\ filters.present
    /\ \A k \in {"color", "brand", "on_sale", "price_range"} :
          CriterionPresent(filters.map, k)
    /\ Len(catalog) = 2 /\ Len(Result) = 1
    /\ Result[1] = catalog[2]

Omit(f, k) == [j \in DOMAIN f \ {k} |-> f[j]]

Criteria == {"color", "brand", "on_sale", "price_range"}

\* C3: a criterion whose stored value is "" or null is not provided: the
\* query answers as it does with that key omitted; a present non-empty
\* value, on_sale = false included, constrains every record of the result.
C3_EmptyIsNotProvided ==
    (IsQuery /\ filters.present /\ WellFormedRange(filters.map)) =>
        /\ \A k \in Criteria :
              (k \in DOMAIN filters.map /\ EmptyValue(filters.map[k])) =>
                  /\ Answered
                  /\ Result = QueryProducts(catalog,
                                  [present |-> TRUE, map |-> Omit(filters.map, k)]).value
        /\ \A i \in 1..Len(Result) :
              /\ CriterionPresent(filters.map, "color") =>
                    Result[i].color = filters.map["color"][2]
              /\ CriterionPresent(filters.map, "brand") =>
                    Result[i].designer = filters.map["brand"][2]
              /\ CriterionPresent(filters.map, "on_sale") =>
                    Result[i].on_sale = filters.map["on_sale"][2]
              /\ CriterionPresent(filters.map, "price_range") =>
                    /\ RangeBounds(filters.map["price_range"][2])[1] <= ProductPrice(Result[i])
                    /\ ProductPrice(Result[i]) <= RangeBounds(filters.map["price_range"][2])[2]

\* on_sale = false with the other criteria empty or null: the on-sale
\* record of the catalog is dropped, the other kept.
C3_Witness ==
    /\ Answered /\ filters.present
    /\ DOMAIN filters.map = Criteria
    /\ filters.map["on_sale"] = JBool(FALSE)
    /\ EmptyValue(filters.map["color"]) /\ EmptyValue(filters.map["brand"])
    /\ EmptyValue(filters.map["price_range"])
    /\ Len(catalog) = 2 /\ catalog[1].on_sale /\ ~catalog[2].on_sale
    /\ Result = <<catalog[2]>>

NonIncreasing(keys) == \A i \in 1..(Len(keys) - 1) : keys[i] >= keys[i + 1]
NonDecreasing(keys) == \A i \in 1..(Len(keys) - 1) : keys[i] <= keys[i + 1]

EffectivePrices(r) ==
    [i \in 1..Len(r) |-> IF r[i].on_sale THEN r[i].discount_price ELSE r[i].regular_price]
Popularities(r) == [i \in 1..Len(r) |-> r[i].popularity_score]

SortByIs(f, name) == "sort_by" \in DOMAIN f /\ f["sort_by"] = JStr(name)

\* The records that pass the criteria, in catalog order.
Survivors(c, f) == SelectSeq(c, LAMBDA p : Passes(p, f))

SameRecords(r, c) == Range(r) = Range(c) /\ Len(r) = Len(c)

\* C4 as stated: the three sort-mode names are price_high_to_low,
\* price_low_to_high and popularity_descending, and any other sort_by
\* leaves the filtered records in catalog order.
C4_AsStated ==
    (Answered /\ filters.present) =>
        /\ SortByIs(filters.map, "price_high_to_low") => NonIncreasing(EffectivePrices(Result))
        /\ SortByIs(filters.map, "price_low_to_high") => NonDecreasing(EffectivePrices(Result))
        /\ SortByIs(filters.map, "popularity_descending") => NonIncreasing(Popularities(Result))
        /\ (~SortByIs(filters.map, "price_high_to_low")
              /\ ~SortByIs(filters.map, "price_low_to_high")
              /\ ~SortByIs(filters.map, "popularity_descending"))
           => InOrderOf(Result, catalog)

\* C4, amended: the third sort-mode name the handler knows is "popularity".
\* Under price_high_to_low, price_low_to_high and popularity the result is
\* the filtered records in non-increasing effective price, non-decreasing
\* effective price and non-increasing popularity_score; under an absent or
\* any other sort_by (popularity_descending included) it is the filtered
\* records in catalog order.
C4_SortByMode ==
    /\ (IsQuery /\ ~filters.present) => Result = catalog
    /\ (Answered /\ filters.present) =>
        /\ SameRecords(Result, Survivors(catalog, filters.map))
        /\ SortByIs(filters.map, "price_high_to_low") => NonIncreasing(EffectivePrices(Result))
        /\ SortByIs(filters.map, "price_low_to_high") => NonDecreasing(EffectivePrices(Result))
        /\ SortByIs(filters.map, "popularity") => NonIncreasing(Popularities(Result))
        /\ ~Sorting(filters.map) => Result = Survivors(catalog, filters.map)

\* Two records that the sort has to exchange.
C4_Witness ==
    /\ Answered /\ filters.present
    /\ SortByIs(filters.map, "popularity")
    /\ Len(Result) = 2
    /\ Result = <<catalog[2], catalog[1]>>

----------------------------------------------------------------------------
(* Properties of a session, under Spec *)

\* C2: the store is absent when no set-filters ran since the last
\* clear-filters (or ever), and otherwise holds exactly the mapping of the
\* most recent set-filters, with no key of the mapping it replaced; a query
\* loads exactly that content as its criteria and sort mode.
C2_StoreIsLastSet ==
    /\ lastMutation.kind \in {"none", "clear"} => store = StoreAbsent
    /\ lastMutation.kind = "set" =>
          /\ store.exists
          /\ json_loads(store.text).ok
          /\ json_loads(store.text).value = lastMutation.mapping
    /\ IsQuery =>
          filters = IF lastMutation.kind = "set"
                    THEN [present |-> TRUE, map |-> lastMutation.mapping]
                    ELSE NoFilters

\* A query after a set-filters that replaced a mapping with other keys.
C2_Witness ==
    /\ IsQuery /\ Answered
    /\ lastMutation.kind = "set"
    /\ lastMutation.over.exists
    /\ DOMAIN json_loads(lastMutation.over.text).value = {"color", "on_sale"}
    /\ DOMAIN lastMutation.mapping = {"sort_by"}
    /\ filters.present /\ DOMAIN filters.map = {"sort_by"}

IsPaged == request.method = "GET" /\ request.path = "/api/products"

\* C8: a paginated query whose page or items_per_page is below 1 fails with
\* a ValidationError and returns neither products nor pagination metadata;
\* omitted parameters default to page 1 and 50 items per page.
C8_PageBelowOneFails ==
    IsPaged =>
        /\ "page" \notin DOMAIN request.query => paging.page_number = 1
        /\ "items_per_page" \notin DOMAIN request.query => paging.items_per_page = 50
        /\ (paging.page_number < 1 \/ paging.items_per_page < 1) =>
              /\ response = Failure("ValidationError")
              /\ "products" \notin DOMAIN response
              /\ "pagination" \notin DOMAIN response
        /\ (paging.page_number >= 1 /\ paging.items_per_page >= 1) =>
              /\ response.status = 200
              /\ response.pagination.current_page = paging.page_number

\* page = -1 with items_per_page left to its default.
C8_Witness ==
    /\ IsPaged
    /\ DOMAIN request.query = {"page"}
    /\ paging = [page_number |-> -1, items_per_page |-> 50]
    /\ response = Failure("ValidationError")

IsClear == request'.method = "POST" /\ request'.path = "/api/clear-filters"
IsSet == request'.method = "POST" /\ request'.path = "/api/set-filters"

\* C9: a mutation never fails on an absent store and is idempotent:
\* clear-filters answers success and leaves the store absent, leaving an
\* absent store as it was; set-filters with a mapping m answers success and
\* leaves the store equal to m, leaving a store already equal to m as it was.
C9_MutationsIdempotent ==
    [][ /\ IsClear =>
              /\ response' = Success
              /\ store' = StoreAbsent
              /\ ~store.exists => store' = store
        /\ (IsSet /\ json_loads(request'.body).ok) =>
              /\ response' = Success
              /\ store' = StoreOf(json_loads(request'.body).value)
              /\ store = StoreOf(json_loads(request'.body).value) => store' = store
      ]_vars

\* clear-filters answered on a store that a clear-filters had already removed.
C9_Witness ==
    /\ request.method = "POST" /\ request.path = "/api/clear-filters"
    /\ response = Success
    /\ lastMutation.kind = "clear"
    /\ ~lastMutation.over.exists
    /\ store = StoreAbsent

----------------------------------------------------------------------------
(* The sort engine on its own: every input up to MaxSortLen records, with  *)
(* equal and unequal keys, regular and discounted prices.                  *)

SortRecords ==
    {Product(0, "black", "gucci", c.on_sale, c.regular, 250, c.pop) : c \in
        [on_sale : BOOLEAN, regular : {150, 500}, pop : {12, 25}]}

\* product_id is the place in the input, so equal keys stay distinguishable.
Numbered(s) == [i \in 1..Len(s) |-> [s[i] EXCEPT !.product_id = i]]

SortInputs == {Numbered(s) : s \in SeqsUpTo(SortRecords, MaxSortLen)}

ServerQuiet ==
    /\ catalog = <<>> /\ store = StoreAbsent /\ lastMutation = NoMutation
    /\ ServerIdle

InitSort ==
    /\ sortInput \in SortInputs
    /\ sortMode = ""
    /\ sortOutput = <<>>
    /\ ServerQuiet /\ PageIdle /\ RaceIdle

SortHighToLow ==
    /\ sortMode' = "price_high_to_low"
    /\ sortOutput' = sort_by_price_high_to_low(sortInput)
    /\ UNCHANGED <<sortInput, serverVars, pageVars, raceVars>>

SortLowToHigh ==
    /\ sortMode' = "price_low_to_high"
    /\ sortOutput' = sort_by_price_low_to_high(sortInput)
    /\ UNCHANGED <<sortInput, serverVars, pageVars, raceVars>>

SortPopularity ==
    /\ sortMode' = "popularity"
    /\ sortOutput' = sort_by_popularity(sortInput)
    /\ UNCHANGED <<sortInput, serverVars, pageVars, raceVars>>

NextSort == SortHighToLow \/ SortLowToHigh \/ SortPopularity

SpecSort == InitSort /\ [][NextSort]_vars

\* The key a mode orders by, negated where the order is descending, so that
\* every mode's output is non-decreasing in it.
ModeKey(mode, p) ==
    LET price == IF p.on_sale THEN p.discount_price ELSE p.regular_price
    IN CASE mode = "price_high_to_low" -> 0 - price
         [] mode = "price_low_to_high" -> price
         [] mode = "popularity" -> 0 - p.popularity_score

ModeKeys(mode, s) == [i \in 1..Len(s) |-> ModeKey(mode, s[i])]

\* C5: each sort returns a permutation of its input, of the same length,
\* non-increasing in effective price (price_high_to_low), non-decreasing in
\* effective price (price_low_to_high) or non-increasing in popularity_score
\* (popularity), records of equal key in their input order; an input already
\* in that order comes back unchanged and the empty input gives the empty
\* output.
C5_SortStablePermutation ==
    sortMode # "" =>
        /\ Len(sortOutput) = Len(sortInput)
        /\ Range(sortOutput) = Range(sortInput)
        /\ NonDecreasing(ModeKeys(sortMode, sortOutput))
        /\ \A i, j \in 1..Len(sortOutput) :
              (i < j /\ ModeKey(sortMode, sortOutput[i]) = ModeKey(sortMode, sortOutput[j]))
                  => sortOutput[i].product_id < sortOutput[j].product_id
        /\ NonDecreasing(ModeKeys(sortMode, sortInput)) => sortOutput = sortInput
        /\ sortInput = <<>> => sortOutput = <<>>

\* Three records with two equal prices: the sort moves the third record to
\* the front and keeps the two equal ones in their input order.
C5_Witness ==
    /\ sortMode = "price_high_to_low"
    /\ Len(sortInput) = 3
    /\ ProductPrice(sortInput[1]) = ProductPrice(sortInput[2])
    /\ ProductPrice(sortInput[3]) > ProductPrice(sortInput[1])
    /\ sortOutput = <<sortInput[3], sortInput[1], sortInput[2]>>

----------------------------------------------------------------------------
(* Paging through a sequence with /api/products: page 1, 2, ... and up to  *)
(* PagesBeyond pages past the last one.                                    *)

PageRecord(i) == Product(i, "black", "gucci", FALSE, 100 * i, 100 * i, i)

PageInputs == {[i \in 1..n |-> PageRecord(i)] : n \in 0..MaxPageLen}

InitPage ==
    /\ pgRecords \in PageInputs
    /\ pgSize \in 1..MaxPageSize
    /\ pgPage = 1
    /\ pgCollected = <<>>
    /\ pgResponse = NoResponse
    /\ ServerQuiet /\ SortIdle /\ RaceIdle

FetchPage ==
    /\ \/ pgResponse.status = 0
       \/ /\ pgResponse.status = 200
          /\ pgPage <= pgResponse.pagination.total_pages + PagesBeyond
    /\ pgResponse' = PageResponse(pgRecords, pgPage, pgSize)
    /\ pgCollected' = IF pgResponse'.status = 200
                      THEN pgCollected \o pgResponse'.products
                      ELSE pgCollected
    /\ pgPage' = pgPage + 1
    /\ UNCHANGED <<pgRecords, pgSize, serverVars, sortVars, raceVars>>

NextPage == FetchPage

SpecPage == InitPage /\ [][NextPage]_vars

Fetched == pgResponse.status # 0
LastPage == pgPage - 1

\* C6: the page items of pages 1, 2, ..., total_pages, concatenated in that
\* order, are the full sequence, each record once and in the same order.
C6_PagesConcatenate ==
    Fetched =>
        /\ pgResponse.status = 200
        /\ LastPage >= pgResponse.pagination.total_pages => pgCollected = pgRecords
        /\ LastPage < pgResponse.pagination.total_pages =>
              pgCollected = SubSeq(pgRecords, 1, LastPage * pgSize)

\* Every page up to total_pages fetched, more than one page, the last short.
C6_Witness ==
    /\ Fetched
    /\ LastPage = pgResponse.pagination.total_pages
    /\ LastPage = 3
    /\ Len(pgResponse.products) < pgSize
    /\ pgCollected = pgRecords

\* C7: total_pages is max(1, ceil(total_items / page_size)), has_previous is
\* page > 1 and has_next is page < total_pages; a page past total_pages gets
\* no items, no error, and the same total item and page counts.
C7_PageMetadata ==
    Fetched =>
        /\ pgResponse.status = 200
        /\ LET info == pgResponse.pagination
           IN /\ info.total_items = Len(pgRecords)
              /\ info.total_pages >= 1
              /\ info.total_pages * pgSize >= Len(pgRecords)
              /\ info.total_pages > 1 => (info.total_pages - 1) * pgSize < Len(pgRecords)
              /\ info.current_page = LastPage
              /\ info.has_previous <=> LastPage > 1
              /\ info.has_next <=> LastPage < info.total_pages
              /\ LastPage > info.total_pages => pgResponse.products = <<>>
              /\ LastPage <= info.total_pages =>
                    Len(pgResponse.products) = Min(pgSize, Len(pgRecords) - (LastPage - 1) * pgSize)

\* A page past the last one of an empty sequence: one page in total.
C7_Witness ==
    /\ Fetched
    /\ pgRecords = <<>>
    /\ LastPage = 2
    /\ pgResponse.status = 200
    /\ pgResponse.products = <<>>
    /\ pgResponse.pagination.total_pages = 1
    /\ pgResponse.pagination.has_previous /\ ~pgResponse.pagination.has_next

----------------------------------------------------------------------------
(* A set-filters and a /data.json query interleaved at the store's file    *)
(* operations.  The writer truncates the file when it opens it and the     *)
(* text reaches the file in one or more flushes, the last at close; the    *)
(* query tests for the file, opens it, reads it whole and decodes it.      *)

RaceCatalogs == {SubSeq(sample_products, 1, n) : n \in 1..MaxCatalog}

InitRace ==
    /\ catalog \in RaceCatalogs
    /\ store \in {StoreAbsent} \cup {StoreOf(m) : m \in SessionMappings}
    /\ oldStore = store
    /\ wpc = "open"
    /\ wpending \in {json_dumps(m) : m \in SessionMappings}
    /\ rpc = "exists"
    /\ rtext = <<>>
    /\ lastMutation = NoMutation
    /\ ServerIdle /\ SortIdle /\ PageIdle

\* with open("current_filters.json", "w") as f
WriterOpen ==
    /\ wpc = "open"
    /\ store' = [exists |-> TRUE, text |-> <<>>]
    /\ wpc' = "write"
    /\ UNCHANGED <<catalog, request, response, filters, paging, lastMutation,
                   wpending, rpc, rtext, oldStore, sortVars, pageVars>>

\* json.dump(filters, f): some of the pending text reaches the file
WriterFlush ==
    /\ wpc = "write"
    /\ \E n \in 1..Len(wpending) :
          /\ store' = [store EXCEPT !.text = @ \o SubSeq(wpending, 1, n)]
          /\ wpending' = SubSeq(wpending, n + 1, Len(wpending))
    /\ UNCHANGED <<catalog, request, response, filters, paging, lastMutation,
                   wpc, rpc, rtext, oldStore, sortVars, pageVars>>

\* the end of the with block: the file is closed with all its text written
WriterClose ==
    /\ wpc = "write"
    /\ wpending = <<>>
    /\ wpc' = "done"
    /\ UNCHANGED <<catalog, store, request, response, filters, paging, lastMutation,
                   wpending, rpc, rtext, oldStore, sortVars, pageVars>>

\* if os.path.exists("current_filters.json")
ReaderExists ==
    /\ rpc = "exists"
    /\ rpc' = IF store.exists THEN "open" ELSE "answer"
    /\ UNCHANGED <<catalog, store, request, response, filters, paging, lastMutation,
                   wpc, wpending, rtext, oldStore, sortVars, pageVars>>

\* with open("current_filters.json", "r") as f
ReaderOpen ==
    /\ rpc = "open"
    /\ rpc' = "read"
    /\ UNCHANGED <<catalog, store, request, response, filters, paging, lastMutation,
                   wpc, wpending, rtext, oldStore, sortVars, pageVars>>

\* json.load(f) reads the file whole
ReaderRead ==
    /\ rpc = "read"
    /\ rtext' = store.text
    /\ rpc' = "decode"
    /\ UNCHANGED <<catalog, store, request, response, filters, paging, lastMutation,
                   wpc, wpending, oldStore, sortVars, pageVars>>

\* the rest of GET /data.json, from the text read or from no filters file
ReaderAnswer ==
    /\ rpc \in {"decode", "answer"}
    /\ LET loaded == LoadFilters([exists |-> rpc = "decode", text |-> rtext])
       IN /\ request' = [method |-> "GET", path |-> "/data.json"]
          /\ IF ~loaded.ok
             THEN filters' = NoFilters /\ response' = Failure(loaded.error)
             ELSE LET result == QueryProducts(catalog, loaded.value)
                  IN /\ filters' = loaded.value
                     /\ response' = IF result.ok
                                    THEN [status |-> 200, body |-> result.value]
                                    ELSE Failure(result.error)
    /\ rpc' = "done"
    /\ UNCHANGED <<catalog, store, paging, lastMutation, wpc, wpending, rtext,
                   oldStore, sortVars, pageVars>>

NextRace ==
    \/ WriterOpen \/ WriterFlush \/ WriterClose
    \/ ReaderExists \/ ReaderOpen \/ ReaderRead \/ ReaderAnswer

SpecRace == InitRace /\ [][NextRace]_vars

\* What a query uses under the old store and under the new mapping.
OldFilters == LoadFilters(oldStore).value
NewText == IF wpc = "open" THEN wpending ELSE store.text \o wpending
NewFilters == [present |-> TRUE, map |-> json_loads(NewText).value]

UsesOldOrNew ==
    /\ response.status = 200
    /\ filters \in {OldFilters, NewFilters}
    /\ response.body = QueryProducts(catalog, filters).value

----------------------------------------------------------------------------
(* Frame of the requests, under Spec *)

MutationPaths == {"/api/set-filters", "/api/clear-filters"}

\* C11: no request changes the catalog; a query (unpaginated or paginated)
\* and a POST to an unrecognized path, which is answered 404, leave the
\* store unchanged; only set-filters and clear-filters change the store.
C11_OnlyMutationsChangeStore ==
    [][ /\ catalog' = catalog
        /\ request'.method = "GET" => store' = store
        /\ (request'.method = "POST" /\ request'.path \notin MutationPaths) =>
              /\ store' = store
              /\ response'.status = 404
        /\ store' # store =>
              /\ request'.method = "POST"
              /\ request'.path \in MutationPaths
      ]_vars

\* An unrecognized POST answered 404 while the store holds filters.
C11_Witness ==
    /\ request.method = "POST" /\ request.path = "/api/other"
    /\ response.status = 404
    /\ lastMutation.kind = "set"
    /\ store = StoreOf(lastMutation.mapping)
    /\ DOMAIN lastMutation.mapping = {"color", "on_sale", "sort_by"}
    /\ Len(catalog) = MaxCatalog

----------------------------------------------------------------------------
(* A client that asks /data.json for everything and then pages through     *)
(* /api/products, against the same catalog and store.                      *)

\* Store contents the two endpoints are compared under.
BrowseMappings ==
    {MappingOf(c) : c \in
        [color : {Absent, JStr(""), JStr("black")},
         brand : {Absent, JStr("gucci")},
         on_sale : {Absent, JBool(TRUE), JBool(FALSE)},
         price_range : {Absent, JChars(<<"1", "5", "0", "-", "2", "5", "0">>),
                        JChars(<<"1", "0", "0">>)},
         sort_by : {Absent, JStr("price_high_to_low"), JStr("price_low_to_high"),
                    JStr("popularity"), JStr("popularity_descending")}]}

\* str(n) for one decimal digit.
DigitChars(n) == <<CHOOSE c \in DOMAIN DigitOf : DigitOf[c] = n>>

PageQuery(page, size) ==
    [k \in {"page", "items_per_page"} |->
        IF k = "page" THEN DigitChars(page) ELSE DigitChars(size)]

InitBrowse ==
    /\ catalog \in Catalogs
    /\ store \in {StoreAbsent} \cup {StoreOf(m) : m \in BrowseMappings}
    /\ lastMutation = NoMutation
    /\ ServerIdle
    /\ pgRecords = <<>>
    /\ pgSize \in 1..MaxBrowseSize
    /\ pgPage = 1
    /\ pgCollected = <<>>
    /\ pgResponse = NoResponse
    /\ SortIdle /\ RaceIdle

\* The unpaginated request; its records are kept in pgRecords.
BrowseData ==
    /\ request = NoRequest
    /\ GetDataStep
    /\ pgRecords' = IF response'.status = 200 THEN response'.body ELSE <<>>
    /\ UNCHANGED <<pgSize, pgPage, pgCollected, pgResponse>>

\* The next page, up to total_pages; its products are appended.
BrowsePage ==
    /\ request # NoRequest
    /\ \/ pgResponse.status = 0
       \/ /\ pgResponse.status = 200
          /\ pgPage <= pgResponse.pagination.total_pages
    /\ GetProductsStep(PageQuery(pgPage, pgSize))
    /\ pgResponse' = response'
    /\ pgCollected' = IF response'.status = 200
                      THEN pgCollected \o response'.products
                      ELSE pgCollected
    /\ pgPage' = pgPage + 1
    /\ UNCHANGED <<pgRecords, pgSize>>

NextBrowse == BrowseData \/ BrowsePage

SpecBrowse == InitBrowse /\ [][NextBrowse]_vars

AllPagesFetched ==
    /\ pgResponse.status = 200
    /\ pgPage > pgResponse.pagination.total_pages

\* C12: the two query endpoints run the same filter-then-sort pipeline: the
\* products of all pages of /api/products, concatenated in page order, are
\* the records of /data.json in the same order, for any items_per_page >= 1,
\* and the paginated total item count is the number of unpaginated records.
C12_EndpointsAgree ==
    /\ pgResponse.status = 200 =>
          /\ pgResponse.pagination.total_items = Len(pgRecords)
          /\ pgCollected = SubSeq(pgRecords, 1, Min((pgPage - 1) * pgSize, Len(pgRecords)))
    /\ AllPagesFetched => pgCollected = pgRecords

\* Two pages of one record each, in the order the sort gave /data.json.
C12_Witness ==
    /\ AllPagesFetched
    /\ pgSize = 1
    /\ pgPage = 3
    /\ filters.present /\ Sorting(filters.map)
    /\ pgRecords = <<catalog[2], catalog[1]>>
    /\ pgCollected = pgRecords

====
